---- MODULE Spec2Model ----
(***************************************************************************)
(* Model of knowledge/docling/5-chat.py: extract_data_for_visualization.   *)
(* A text is a sequence of one-character strings.  The regular expressions *)
(* of the pattern table are sequences of quantified character classes and  *)
(* are matched by a backtracking matcher with the semantics of Python's    *)
(* re.findall (leftmost match, greedy / lazy quantifiers tried in priority *)
(* order, non-overlapping matches).                                        *)
(* A float value is the exact decimal [num, frac] = num / 10^frac, kept in *)
(* lowest terms of the power of ten, so that equal numbers are equal       *)
(* records.                                                                *)
(***************************************************************************)
EXTENDS Integers, Sequences, FiniteSets, TLC

\* ------------------------------------------------------------------------
\* Characters and character classes
\* ------------------------------------------------------------------------
LowerSeq ==
  <<"a","b","c","d","e","f","g","h","i","j","k","l","m",
    "n","o","p","q","r","s","t","u","v","w","x","y","z">>

UpperSeq ==
  <<"A","B","C","D","E","F","G","H","I","J","K","L","M",
    "N","O","P","Q","R","S","T","U","V","W","X","Y","Z">>

LowerLetters == {LowerSeq[i] : i \in 1..26}

UpperLetters == {UpperSeq[i] : i \in 1..26}

DigitSeq == <<"0","1","2","3","4","5","6","7","8","9">>

\* \d
Digit == {DigitSeq[i] : i \in 1..10}

\* \s
Space == {" ", "\n"}

\* \w
Word == LowerLetters \cup UpperLetters \cup Digit \cup {"_"}

Punct == {":", "=", ",", ".", "%", "&", "-"}

\* every character a text of the model can hold
Char == Word \cup Space \cup Punct

\* str.lower() on one character
LowerChar(c) ==
  IF c \in UpperLetters
    THEN LowerSeq[CHOOSE i \in 1..26 : UpperSeq[i] = c]
    ELSE c

\* str.upper() on one character
UpperChar(c) ==
  IF c \in LowerLetters
    THEN UpperSeq[CHOOSE i \in 1..26 : LowerSeq[i] = c]
    ELSE c

\* str.lower()
Lower(s) == [i \in 1..Len(s) |-> LowerChar(s[i])]

\* str.title(): a cased character is upper-cased when it follows an uncased
\* character (or starts the string) and lower-cased otherwise
Title(s) ==
  [i \in 1..Len(s) |->
     IF i = 1 \/ s[i-1] \notin (LowerLetters \cup UpperLetters)
       THEN UpperChar(s[i])
       ELSE LowerChar(s[i])]

\* needle in hay
Contains(hay, needle) ==
  \E i \in 1..(Len(hay) - Len(needle) + 1) :
     \A j \in 1..Len(needle) : hay[i + j - 1] = needle[j]

\* ------------------------------------------------------------------------
\* Regular expressions: a pattern is a sequence of items, an item a
\* character class with a quantifier q in {"1", "?", "*", "+"} that is
\* greedy or lazy.  Group 1 is always the first item; group 2 is the three
\* items [\d,]+ \.? \d* starting at item g2.
\* ------------------------------------------------------------------------
It(cls, q, lazy) == [cls |-> cls, q |-> q, lazy |-> lazy]

\* a literal string
Lit(s) == [i \in 1..Len(s) |-> It({s[i]}, "1", FALSE)]

\* \s*
Ws == <<It(Space, "*", FALSE)>>

\* ([\d,]+\.?\d*)
NumGroup ==
  <<It(Digit \cup {","}, "+", FALSE), It({"."}, "?", FALSE), It(Digit, "*", FALSE)>>

\* ([^:]+?)
LazyLabel == <<It(Char \ {":"}, "+", TRUE)>>

Pat(items, g2) == [items |-> items, g2 |-> g2]

\* ([^:]+?)\s*<lead>([\d,]+\.?\d*)<tail>
LazyPat(lead, tail) ==
  Pat(LazyLabel \o Ws \o lead \o NumGroup \o tail, 3 + Len(lead))

patterns ==
  << \* ([^:=\n]+)[:=]\s*([\d,]+\.?\d*)
     Pat(<<It(Char \ {":", "=", "\n"}, "+", FALSE), It({":", "="}, "1", FALSE)>>
           \o Ws \o NumGroup, 4),
     \* ([^=\n]+)=\s*([\d,]+\.?\d*)
     Pat(<<It(Char \ {"=", "\n"}, "+", FALSE), It({"="}, "1", FALSE)>>
           \o Ws \o NumGroup, 4),
     \* ([^,\n]+),\s*([\d,]+\.?\d*)
     Pat(<<It(Char \ {",", "\n"}, "+", FALSE), It({","}, "1", FALSE)>>
           \o Ws \o NumGroup, 4),
     \* ([^:]+?)\s*Credit\s*directed:\s*KD\s*([\d,]+\.?\d*)\s*billion
     LazyPat(Lit(<<"C","r","e","d","i","t">>) \o Ws
               \o Lit(<<"d","i","r","e","c","t","e","d",":">>) \o Ws
               \o Lit(<<"K","D">>) \o Ws,
             Ws \o Lit(<<"b","i","l","l","i","o","n">>)),
     \* ([^:]+?)\s*Credit\s*directed:\s*([\d,]+\.?\d*)
     LazyPat(Lit(<<"C","r","e","d","i","t">>) \o Ws
               \o Lit(<<"d","i","r","e","c","t","e","d",":">>) \o Ws,
             <<>>),
     \* ([^:]+?)\s*Share:\s*([\d,]+\.?\d*)%
     LazyPat(Lit(<<"S","h","a","r","e",":">>) \o Ws, Lit(<<"%">>)),
     \* ([^:]+?)\s*Total:\s*KD\s*([\d,]+\.?\d*)\s*billion
     LazyPat(Lit(<<"T","o","t","a","l",":">>) \o Ws \o Lit(<<"K","D">>) \o Ws,
             Ws \o Lit(<<"b","i","l","l","i","o","n">>)),
     \* ([^:]+?)\s*Total:\s*([\d,]+\.?\d*)\s*billion
     LazyPat(Lit(<<"T","o","t","a","l",":">>) \o Ws,
             Ws \o Lit(<<"b","i","l","l","i","o","n">>)),
     \* ([^:]+?)\s*KD\s*([\d,]+\.?\d*)\s*billion
     LazyPat(Lit(<<"K","D">>) \o Ws, Ws \o Lit(<<"b","i","l","l","i","o","n">>)),
     \* ([^:]+?)\s*([\d,]+\.?\d*)\s*billion
     LazyPat(<<>>, Ws \o Lit(<<"b","i","l","l","i","o","n">>)),
     \* ([^:]+?)\s*([\d,]+\.?\d*)\s*million
     LazyPat(<<>>, Ws \o Lit(<<"m","i","l","l","i","o","n">>)),
     \* ([^:]+?)\s*([\d,]+\.?\d*)\s*thousand
     LazyPat(<<>>, Ws \o Lit(<<"t","h","o","u","s","a","n","d">>)),
     \* ([^:]+?)\s*([\d,]+\.?\d*)%
     LazyPat(<<>>, Lit(<<"%">>)),
     \* ([^:]+?)\s*([\d,]+\.?\d*)\s*units
     LazyPat(<<>>, Ws \o Lit(<<"u","n","i","t","s">>)),
     \* ([^:]+?)\s*([\d,]+\.?\d*)\s*properties
     LazyPat(<<>>, Ws \o Lit(<<"p","r","o","p","e","r","t","i","e","s">>)) >>

\* The searches below look for the first position (or count) of a range
\* that succeeds.  They split the range in halves, left half first, which
\* visits the candidates in the same order as a loop over the range.

RECURSIVE FirstOutside(_, _, _, _)
\* the first position of a..b whose character is not in cls, 0 if none
FirstOutside(t, cls, a, b) ==
  IF a > b THEN 0
  ELSE IF a = b THEN (IF t[a] \in cls THEN 0 ELSE a)
  ELSE LET m == (a + b) \div 2
           l == FirstOutside(t, cls, a, m)
       IN IF l # 0 THEN l ELSE FirstOutside(t, cls, m + 1, b)

\* the number of consecutive characters of t from position pos that are in cls
Run(t, cls, pos) ==
  LET f == FirstOutside(t, cls, pos, Len(t))
  IN IF f = 0 THEN Len(t) + 1 - pos ELSE f - pos

RECURSIVE MatchItems(_, _, _, _)
RECURSIVE TryCounts(_, _, _, _, _, _, _, _)
\* Match items[k..] at position pos.  <<>> when there is no match, else the
\* positions <<pos before item k, pos after item k, ..., pos after the last>>
\* of the first match in the matcher's priority order: a greedy item takes
\* as many characters as it can and gives them back one by one, a lazy item
\* takes as few as it can and takes one more at a time.
MatchItems(t, items, k, pos) ==
  IF k > Len(items) THEN <<pos>>
  ELSE LET it == items[k]
           lo == IF it.q \in {"1", "+"} THEN 1 ELSE 0
           hi == IF it.q \in {"1", "?"}
                   THEN (IF pos <= Len(t) /\ t[pos] \in it.cls THEN 1 ELSE 0)
                   ELSE Run(t, it.cls, pos)
           rest == TryCounts(t, items, k, pos,
                             IF it.lazy THEN lo ELSE hi,
                             IF it.lazy THEN 1 ELSE -1,
                             0, hi - lo)
       IN IF hi < lo \/ rest = <<>> THEN <<>> ELSE <<pos>> \o rest

\* the match of items[k+1..] after item k took c0 + d*i characters, for the
\* first i of a..b for which there is one; <<>> if there is none
TryCounts(t, items, k, pos, c0, d, a, b) ==
  IF a > b THEN <<>>
  ELSE IF a = b THEN MatchItems(t, items, k + 1, pos + c0 + d * a)
  ELSE LET m == (a + b) \div 2
           l == TryCounts(t, items, k, pos, c0, d, a, m)
       IN IF l # <<>> THEN l ELSE TryCounts(t, items, k, pos, c0, d, m + 1, b)

RECURSIVE FirstMatch(_, _, _, _)
\* the match at the first position of a..b where there is one; <<>> if none
FirstMatch(t, items, a, b) ==
  IF a > b THEN <<>>
  ELSE IF a = b THEN MatchItems(t, items, 1, a)
  ELSE LET m == (a + b) \div 2
           l == FirstMatch(t, items, a, m)
       IN IF l # <<>> THEN l ELSE FirstMatch(t, items, m + 1, b)

RECURSIVE Scan(_, _, _)
\* the scan of re.findall from position s on: the positions (as MatchItems
\* gives them) of the non-overlapping matches, leftmost first
Scan(t, items, s) ==
  LET b == FirstMatch(t, items, s, Len(t))
  IN IF b = <<>> THEN <<>> ELSE <<b>> \o Scan(t, items, b[Len(b)])

\* re.findall(pattern, text) for a pattern of two groups: the
\* (group 1, group 2) pairs
FindAll(p, t) ==
  LET B == Scan(t, p.items, 1)
  IN [i \in 1..Len(B) |->
        <<SubSeq(t, B[i][1], B[i][2] - 1),
          SubSeq(t, B[i][p.g2], B[i][p.g2 + 3] - 1)>>]

\* ------------------------------------------------------------------------
\* Numbers
\* ------------------------------------------------------------------------
RECURSIVE Pow10(_)
Pow10(n) == IF n = 0 THEN 1 ELSE 10 * Pow10(n - 1)

DigitVal(c) == (CHOOSE i \in 1..10 : DigitSeq[i] = c) - 1

RECURSIVE DigitsToInt(_)
DigitsToInt(ds) ==
  IF ds = <<>> THEN 0
  ELSE 10 * DigitsToInt(SubSeq(ds, 1, Len(ds) - 1)) + DigitVal(ds[Len(ds)])

RECURSIVE Canon(_)
\* the same number without trailing fractional zeros
Canon(v) ==
  IF v.frac > 0 /\ v.num % 10 = 0
    THEN Canon([num |-> v.num \div 10, frac |-> v.frac - 1])
    ELSE v

\* str.replace(',', '')
RemoveCommas(s) == SelectSeq(s, LAMBDA c : c # ",")

\* float(s) for a string of digits and dots: a ValueError unless s is
\* digits with at most one dot and at least one digit
ParseFloat(s) ==
  LET dots == {i \in 1..Len(s) : s[i] = "."}
      ds   == SelectSeq(s, LAMBDA c : c \in Digit)
      dot  == CHOOSE i \in dots : TRUE
  IN IF Cardinality(dots) > 1 \/ ds = <<>> \/ Len(ds) + Cardinality(dots) # Len(s)
       THEN [ok |-> FALSE, val |-> [num |-> 0, frac |-> 0]]
       ELSE [ok |-> TRUE,
             val |-> Canon([num  |-> DigitsToInt(ds),
                            frac |-> IF dots = {} THEN 0 ELSE Len(s) - dot])]

\* a > b
Greater(a, b) == a.num * Pow10(b.frac) > b.num * Pow10(a.frac)

\* value >= 0 in place of value > 0
Positive_orZero(v) == v.num >= 0

\* value > 0
Positive(v) == v.num > 0

RECURSIVE DigitsOf(_)
DigitsOf(n) ==
  IF n < 10 THEN <<DigitSeq[n + 1]>>
  ELSE DigitsOf(n \div 10) \o <<DigitSeq[(n % 10) + 1]>>

RECURSIVE Grouped(_)
\* the ',' option of the format: groups of three digits
Grouped(n) ==
  IF n < 1000 THEN DigitsOf(n)
  ELSE Grouped(n \div 1000) \o <<",">>
       \o <<DigitSeq[((n % 1000) \div 100) + 1],
            DigitSeq[((n % 100) \div 10) + 1],
            DigitSeq[(n % 10) + 1]>>

\* round(v * 100), halves to even
Hundredths(v) ==
  IF v.frac <= 2 THEN v.num * Pow10(2 - v.frac)
  ELSE LET d == Pow10(v.frac - 2)
           q == v.num \div d
           r == v.num % d
       IN IF 2 * r > d \/ (2 * r = d /\ q % 2 = 1) THEN q + 1 ELSE q

\* f"{value:,.2f}"
FormatValue(v) ==
  LET h == Hundredths(v)
  IN Grouped(h \div 100) \o <<".">>
     \o <<DigitSeq[((h % 100) \div 10) + 1], DigitSeq[(h % 10) + 1]>>

\* f"{category}: {value:,.2f}"
MakeLabel(category, v) == category \o <<":", " ">> \o FormatValue(v)

\* ------------------------------------------------------------------------
\* Label clean-up
\* ------------------------------------------------------------------------
RECURSIVE LStrip(_)
LStrip(s) == IF s # <<>> /\ Head(s) \in Space THEN LStrip(Tail(s)) ELSE s

RECURSIVE RStrip(_)
RStrip(s) ==
  IF s # <<>> /\ s[Len(s)] \in Space THEN RStrip(SubSeq(s, 1, Len(s) - 1)) ELSE s

\* str.strip()
Strip(s) == RStrip(LStrip(s))

RECURSIVE CollapseWs(_)
\* re.sub(r'\s+', ' ', s)
CollapseWs(s) ==
  IF s = <<>> THEN <<>>
  ELSE IF Head(s) \in Space
    THEN <<" ">> \o CollapseWs(LStrip(s))
    ELSE <<Head(s)>> \o CollapseWs(Tail(s))

\* re.sub(r'[^\w\s\-&]', '', s)
RemoveSpecial(s) == SelectSeq(s, LAMBDA c : c \in Word \cup Space \cup {"-", "&"})

\* lines 186-187
CleanCategory(category) == RemoveSpecial(Strip(CollapseWs(category)))

SkipWords ==
  << <<"s","o","u","r","c","e",":">>, <<"p","a","g","e">>, <<"f","i","l","e">>,
     <<"p","d","f">>, <<"r","e","p","o","r","t">>, <<"t","i","t","l","e">> >>

MinCategoryLen == 3

\* lines 190-191
Acceptable(category) ==
  /\ Len(category) > MinCategoryLen
  /\ ~ \E i \in 1..Len(SkipWords) : Contains(Lower(category), SkipWords[i])

\* without the test of line 194
IsDuplicate_never(category, categories) == FALSE

\* line 194, negated
IsDuplicate(category, categories) ==
  \E i \in 1..Len(categories) : categories[i] = category

real_estate_keywords ==
  << <<"r","e","a","l"," ","e","s","t","a","t","e">>,
     <<"c","o","n","s","t","r","u","c","t","i","o","n">>,
     <<"h","o","u","s","i","n","g">>,
     <<"c","r","e","d","i","t">>,
     <<"f","a","c","i","l","i","t","i","e","s">>,
     <<"i","n","s","t","a","l","m","e","n","t">>,
     <<"p","r","i","v","a","t","e">>,
     <<"m","o","d","e","l">>,
     <<"t","o","t","a","l">>,
     <<"r","e","s","i","d","e","n","t","i","a","l">>,
     <<"c","o","m","m","e","r","c","i","a","l">>,
     <<"i","n","v","e","s","t","m","e","n","t">>,
     <<"d","e","v","e","l","o","p","m","e","n","t">>,
     <<"m","a","r","k","e","t">>,
     <<"p","r","i","c","e">>,
     <<"v","a","l","u","e">> >>

\* (\d+): whole numbers only
number_pattern_wholeOnly ==
  <<It(Digit, "+", FALSE), It({}, "?", FALSE), It({}, "*", FALSE)>>

\* (\d+\.?\d*)
number_pattern ==
  <<It(Digit, "+", FALSE), It({"."}, "?", FALSE), It(Digit, "*", FALSE)>>

\* re.findall(number_pattern, text): the whole matches
FindNumbers(t) ==
  LET B == Scan(t, number_pattern, 1)
  IN [i \in 1..Len(B) |-> SubSeq(t, B[i][1], B[i][4] - 1)]

\* without the except clauses
Caught_none == {}

\* the exceptions the try blocks of lines 182-199 and 215-222 catch
Caught == {"ValueError"}

MaxCategories == 10

RECURSIVE InsertDesc(_, _)
\* x goes after every pair whose value is not smaller: equal values keep
\* their order, as in sorted(..., reverse=True)
InsertDesc(sorted, x) ==
  IF sorted = <<>> THEN <<x>>
  ELSE IF Greater(x[2], Head(sorted)[2]) THEN <<x>> \o sorted
  ELSE <<Head(sorted)>> \o InsertDesc(Tail(sorted), x)

RECURSIVE SortDesc(_)
\* sorted(pairs, key=lambda x: x[1], reverse=True)
SortDesc(pairs) ==
  IF pairs = <<>> THEN <<>>
  ELSE InsertDesc(SortDesc(SubSeq(pairs, 1, Len(pairs) - 1)), pairs[Len(pairs)])

\* zip(categories, values)
Zip(cs, vs) ==
  [i \in 1..(IF Len(cs) < Len(vs) THEN Len(cs) ELSE Len(vs)) |-> <<cs[i], vs[i]>>]

\* s[-n:] in place of s[:n]
Take_last(s, n) == SubSeq(s, IF Len(s) < n THEN 1 ELSE Len(s) - n + 1, Len(s))

\* s[:n]
Take(s, n) == SubSeq(s, 1, IF Len(s) < n THEN Len(s) ELSE n)

\* lines 232-234
Truncate(s) == IF Len(s) > MaxCategories THEN Take(s, MaxCategories) ELSE s

\* ------------------------------------------------------------------------
\* Input texts.  A text is written as a list of entries
\* <label><sep><numeral> joined by a joiner.
\* ------------------------------------------------------------------------
MaxEntries == 12

MaxCalls == 2

Colon == <<":", " ">>

CommaJoin == <<",", " ">>

LineJoin == <<"\n">>

Entry(label, sep, num) == [label |-> label, sep |-> sep, num |-> num]

RECURSIVE Render(_, _)
Render(es, join) ==
  IF es = <<>> THEN <<>>
  ELSE LET e == es[1]
           one == e.label \o e.sep \o e.num
       IN IF Len(es) = 1 THEN one ELSE one \o join \o Render(Tail(es), join)

Revenue == <<"R","e","v","e","n","u","e">>

MarketPrice == <<"M","a","r","k","e","t"," ","p","r","i","c","e">>

\* the first entry of a short text
FirstEntries ==
  { Entry(l, s, n) :
      l \in {Revenue, MarketPrice, <<"T","a","x">>},
      s \in {Colon, <<" ">>},
      n \in {<<"1",",","2","5","0">>, <<"1",".","5">>, <<"0">>} }

\* the second entry of a short text
SecondEntries ==
  { Entry(l, s, n) :
      l \in {Revenue, MarketPrice},
      s \in {Colon, <<"=">>},
      n \in {<<"1","0","0">>, <<",">>} }

\* the numeral of entry i of a list: ascending, descending, scrambled with
\* zeros and ties, scrambled decimals
ListNum(scheme, i) ==
  CASE scheme = "asc"  -> DigitsOf(i)
    [] scheme = "desc" -> DigitsOf(1000 - 7 * i)
    [] scheme = "mod"  -> DigitsOf((5 * i) % 7)
    [] scheme = "dec"  -> DigitsOf((3 * i) % 11) \o <<".", "5">>

Schemes == {"asc", "desc", "mod", "dec"}

ListLabel(i) == <<"L", "a", "b", LowerSeq[i]>>

ListEntries(n, scheme) ==
  [i \in 1..n |-> Entry(ListLabel(i), Colon, ListNum(scheme, i))]

\* a text written as one piece
Written(t) == [entries |-> <<Entry(t, <<>>, <<>>)>>, join |-> <<>>]

\* "Total: KD 5.2 billion"
TotalKD ==
  <<"T","o","t","a","l",":"," ","K","D"," ","5",".","2"," ",
    "b","i","l","l","i","o","n">>

\* "Housing market 7 and 9": two keywords, two numbers, no pattern match
HousingMarket ==
  <<"H","o","u","s","i","n","g"," ","m","a","r","k","e","t"," ",
    "7"," ","a","n","d"," ","9">>

\* "Market price": keywords and no number
NoNumber == MarketPrice

\* "Source: KFH - p. 3, 4": the citation line get_context writes for the
\* file KFH, pages 3 and 4
SourceCitation ==
  <<"S","o","u","r","c","e",":"," ","K","F","H"," ","-"," ","p","."," ",
    "3",","," ","4">>

\* "Source: KFH = 4"
SourceEquals ==
  <<"S","o","u","r","c","e",":"," ","K","F","H"," ","="," ","4">>

\* "Page count: 5"
PageCount == <<"P","a","g","e"," ","c","o","u","n","t",":"," ","5">>

\* "Title: Market 2"
TitleLine ==
  <<"T","i","t","l","e",":"," ","M","a","r","k","e","t"," ","2">>

ExtraTexts ==
  {TotalKD, HousingMarket, NoNumber, SourceCitation, SourceEquals,
   PageCount, TitleLine}

Inputs ==
  { [entries |-> <<e>>, join |-> CommaJoin] : e \in FirstEntries \cup SecondEntries }
  \cup { Written(t) : t \in ExtraTexts }
  \cup { [entries |-> <<e1, e2>>, join |-> j] :
           e1 \in FirstEntries, e2 \in SecondEntries, j \in {CommaJoin, LineJoin} }
  \cup { [entries |-> ListEntries(n, sc), join |-> j] :
           n \in 0..MaxEntries, sc \in Schemes, j \in {CommaJoin, LineJoin} }

\* ------------------------------------------------------------------------
\* The request classifiers: detect_visualization_request, detect_chart_type
\* ------------------------------------------------------------------------
\* lines 316-325
explicit_visualization_keywords ==
  << <<"c","r","e","a","t","e"," ","c","h","a","r","t">>,
     <<"m","a","k","e"," ","c","h","a","r","t">>,
     <<"s","h","o","w"," ","c","h","a","r","t">>,
     <<"d","i","s","p","l","a","y"," ","c","h","a","r","t">>,
     <<"c","r","e","a","t","e"," ","g","r","a","p","h">>,
     <<"m","a","k","e"," ","g","r","a","p","h">>,
     <<"s","h","o","w"," ","g","r","a","p","h">>,
     <<"d","i","s","p","l","a","y"," ","g","r","a","p","h">>,
     <<"c","r","e","a","t","e"," ","p","l","o","t">>,
     <<"m","a","k","e"," ","p","l","o","t">>,
     <<"s","h","o","w"," ","p","l","o","t">>,
     <<"d","i","s","p","l","a","y"," ","p","l","o","t">>,
     <<"d","r","a","w"," ","c","h","a","r","t">>,
     <<"d","r","a","w"," ","g","r","a","p","h">>,
     <<"d","r","a","w"," ","p","l","o","t">>,
     <<"v","i","s","u","a","l","i","z","e">>,
     <<"v","i","s","u","a","l","i","s","e">>,
     <<"v","i","s","u","a","l","i","z","a","t","i","o","n">>,
     <<"v","i","s","u","a","l","i","s","a","t","i","o","n">>,
     <<"c","h","a","r","t"," ","o","f">>,
     <<"g","r","a","p","h"," ","o","f">>,
     <<"p","l","o","t"," ","o","f">>,
     <<"b","a","r"," ","c","h","a","r","t">>,
     <<"p","i","e"," ","c","h","a","r","t">>,
     <<"l","i","n","e"," ","c","h","a","r","t">>,
     <<"s","c","a","t","t","e","r"," ","p","l","o","t">>,
     <<"h","e","a","t","m","a","p">>,
     <<"h","i","s","t","o","g","r","a","m">> >>

\* lines 331-336
text_only_keywords ==
  << <<"w","h","a","t"," ","i","s">>,
     <<"w","h","a","t"," ","a","r","e">>,
     <<"h","o","w"," ","m","u","c","h">>,
     <<"h","o","w"," ","m","a","n","y">>,
     <<"w","h","e","n">>,
     <<"w","h","e","r","e">>,
     <<"w","h","y">>,
     <<"s","u","m","m","a","r","i","z","e">>,
     <<"s","u","m","m","a","r","y">>,
     <<"e","x","p","l","a","i","n">>,
     <<"d","e","s","c","r","i","b","e">>,
     <<"t","e","l","l"," ","m","e"," ","a","b","o","u","t">>,
     <<"a","v","e","r","a","g","e">>,
     <<"t","o","t","a","l">>,
     <<"p","r","i","c","e">>,
     <<"r","e","n","t">>,
     <<"c","o","s","t">>,
     <<"v","a","l","u","e">>,
     <<"t","r","e","n","d","s">>,
     <<"a","n","a","l","y","s","i","s">>,
     <<"o","v","e","r","v","i","e","w">>,
     <<"i","n","s","i","g","h","t","s">>,
     <<"d","e","t","a","i","l","s">>,
     <<"i","n","f","o","r","m","a","t","i","o","n">> >>

\* any(keyword in s for keyword in keywords)
AnyIn(keywords, s) == \E i \in 1..Len(keywords) : Contains(s, keywords[i])


\* the text-only phrases ignored
detect_visualization_request_noOverride(user_input) ==
  AnyIn(explicit_visualization_keywords, Lower(user_input))

\* lines 310-342
detect_visualization_request(user_input) ==
  LET user_input_lower == Lower(user_input)
      has_visualization_keyword ==
        AnyIn(explicit_visualization_keywords, user_input_lower)
      has_text_only_keywords == AnyIn(text_only_keywords, user_input_lower)
  IN has_visualization_keyword /\ ~has_text_only_keywords

\* another default
default_chart_type_line == "line"

\* line 373
default_chart_type == "bar"

\* the single keywords tested before the two-word phrases
detect_chart_type_keywordsFirst(user_input) ==
  LET user_input_lower == Lower(user_input)
  IN IF AnyIn(<< <<"b","a","r">>,
                       <<"c","o","l","u","m","n">>,
                       <<"v","e","r","t","i","c","a","l">>,
                       <<"h","o","r","i","z","o","n","t","a","l">> >>, user_input_lower)
       THEN "bar"
     ELSE IF AnyIn(<< <<"p","i","e">>,
                            <<"c","i","r","c","l","e">>,
                            <<"d","o","n","u","t">>,
                            <<"s","e","c","t","o","r">> >>, user_input_lower)
       THEN "pie"
     ELSE IF AnyIn(<< <<"l","i","n","e">> >>, user_input_lower)
       THEN "line"
     ELSE IF AnyIn(<< <<"s","c","a","t","t","e","r">>,
                            <<"p","o","i","n","t">>,
                            <<"c","o","r","r","e","l","a","t","i","o","n">> >>, user_input_lower)
       THEN "scatter"
     ELSE IF AnyIn(<< <<"b","a","r"," ","c","h","a","r","t">>,
                            <<"b","a","r"," ","g","r","a","p","h">> >>, user_input_lower)
       THEN "bar"
     ELSE IF AnyIn(<< <<"p","i","e"," ","c","h","a","r","t">>,
                            <<"p","i","e"," ","g","r","a","p","h">> >>, user_input_lower)
       THEN "pie"
     ELSE IF AnyIn(<< <<"l","i","n","e"," ","c","h","a","r","t">>,
                            <<"l","i","n","e"," ","g","r","a","p","h">> >>, user_input_lower)
       THEN "line"
     ELSE IF AnyIn(<< <<"s","c","a","t","t","e","r"," ","p","l","o","t">>,
                            <<"s","c","a","t","t","e","r"," ","c","h","a","r","t">> >>, user_input_lower)
       THEN "scatter"
     ELSE default_chart_type

\* lines 346-373: the first test of the chain that succeeds decides
detect_chart_type(user_input) ==
  LET user_input_lower == Lower(user_input)
  IN IF AnyIn(<< <<"b","a","r"," ","c","h","a","r","t">>,
                       <<"b","a","r"," ","g","r","a","p","h">> >>, user_input_lower)
       THEN "bar"
     ELSE IF AnyIn(<< <<"p","i","e"," ","c","h","a","r","t">>,
                            <<"p","i","e"," ","g","r","a","p","h">> >>, user_input_lower)
       THEN "pie"
     ELSE IF AnyIn(<< <<"l","i","n","e"," ","c","h","a","r","t">>,
                            <<"l","i","n","e"," ","g","r","a","p","h">> >>, user_input_lower)
       THEN "line"
     ELSE IF AnyIn(<< <<"s","c","a","t","t","e","r"," ","p","l","o","t">>,
                            <<"s","c","a","t","t","e","r"," ","c","h","a","r","t">> >>, user_input_lower)
       THEN "scatter"
     ELSE IF AnyIn(<< <<"b","a","r">>,
                            <<"c","o","l","u","m","n">>,
                            <<"v","e","r","t","i","c","a","l">>,
                            <<"h","o","r","i","z","o","n","t","a","l">> >>, user_input_lower)
       THEN "bar"
     ELSE IF AnyIn(<< <<"p","i","e">>,
                            <<"c","i","r","c","l","e">>,
                            <<"d","o","n","u","t">>,
                            <<"s","e","c","t","o","r">> >>, user_input_lower)
       THEN "pie"
     ELSE IF AnyIn(<< <<"l","i","n","e">> >>, user_input_lower)
       THEN "line"
     ELSE IF AnyIn(<< <<"s","c","a","t","t","e","r">>,
                            <<"p","o","i","n","t">>,
                            <<"c","o","r","r","e","l","a","t","i","o","n">> >>, user_input_lower)
       THEN "scatter"
     ELSE default_chart_type


\* ------------------------------------------------------------------------
\* Questions: the examples of the documentation and of the sidebar (lines
\* 589-592), and every question of at most MaxWords words of a vocabulary
\* ------------------------------------------------------------------------
MaxWords == 3

\* "create a bar chart of prices"
CreateBarChartOfPrices ==
  <<"c","r","e","a","t","e"," ","a"," ","b","a","r"," ","c","h","a","r","t"," ","o","f"," ","p","r","i","c","e","s">>

\* "what is the average price"
WhatIsTheAveragePrice ==
  <<"w","h","a","t"," ","i","s"," ","t","h","e"," ","a","v","e","r","a","g","e"," ","p","r","i","c","e">>

\* "Create a bar chart of governorate prices"
SidebarBar ==
  <<"C","r","e","a","t","e"," ","a"," ","b","a","r"," ","c","h","a","r","t"," ","o","f"," ","g","o","v","e","r","n","o","r","a","t","e"," ","p","r","i","c","e","s">>

\* "Show me a pie chart of market segments"
SidebarPie ==
  <<"S","h","o","w"," ","m","e"," ","a"," ","p","i","e"," ","c","h","a","r","t"," ","o","f"," ","m","a","r","k","e","t"," ","s","e","g","m","e","n","t","s">>

\* "Make a line graph of quarterly trends"
SidebarLine ==
  <<"M","a","k","e"," ","a"," ","l","i","n","e"," ","g","r","a","p","h"," ","o","f"," ","q","u","a","r","t","e","r","l","y"," ","t","r","e","n","d","s">>

\* "Display a scatter plot of property values"
SidebarScatter ==
  <<"D","i","s","p","l","a","y"," ","a"," ","s","c","a","t","t","e","r"," ","p","l","o","t"," ","o","f"," ","p","r","o","p","e","r","t","y"," ","v","a","l","u","e","s">>

\* "show me a pie chart"
ShowMeAPieChart ==
  <<"s","h","o","w"," ","m","e"," ","a"," ","p","i","e"," ","c","h","a","r","t">>

\* "plot the donut breakdown"
PlotTheDonutBreakdown ==
  <<"p","l","o","t"," ","t","h","e"," ","d","o","n","u","t"," ","b","r","e","a","k","d","o","w","n">>

\* "summarize results"
SummarizeResults ==
  <<"s","u","m","m","a","r","i","z","e"," ","r","e","s","u","l","t","s">>

SidebarExamples == {SidebarBar, SidebarPie, SidebarLine, SidebarScatter}

Examples ==
  SidebarExamples \cup
  {CreateBarChartOfPrices, WhatIsTheAveragePrice, ShowMeAPieChart, PlotTheDonutBreakdown, SummarizeResults}

Vocabulary ==
  { <<"S","h","o","w">>,
    <<"P","i","e">>,
    <<"b","a","r">>,
    <<"p","i","e">>,
    <<"l","i","n","e">>,
    <<"s","c","a","t","t","e","r">>,
    <<"c","h","a","r","t">>,
    <<"g","r","a","p","h">>,
    <<"p","l","o","t">>,
    <<"d","o","n","u","t">>,
    <<"p","r","i","c","e">>,
    <<"o","f">> }

RECURSIVE Phrases(_)
\* the questions of n words
Phrases(n) ==
  IF n = 1 THEN Vocabulary
  ELSE { p \o <<" ">> \o w : p \in Phrases(n - 1), w \in Vocabulary }

Questions == Examples \cup UNION { Phrases(n) : n \in 1..MaxWords }

\* ------------------------------------------------------------------------
\* setup_database.py: the tables of main
\* ------------------------------------------------------------------------
\* lines 89-94
required_files ==
  <<"1-extraction.py", "2-chunking.py", "3-embedding.py",
    "KFH_Real_Estate_Report_2025_Q1.pdf">>

\* lines 108-112: the script names
scripts_to_run == <<"1-extraction.py", "2-chunking.py", "3-embedding.py">>

\* how subprocess.run of a script can end (lines 39-53): exit status 0,
\* another exit status, or an exception raised by the launch
ScriptOutcomes == {"zero", "nonzero", "exception"}

\* how the check of the database can go (lines 60-77): the connection or
\* the listing raises, the table is absent, the table is listed but opening
\* or counting it raises, the table is listed and counted
DatabaseOutcomes == {"connect_error", "absent", "open_error", "found"}

\* ------------------------------------------------------------------------
\* State
\* ------------------------------------------------------------------------
VARIABLES
  input,    \* how the text of the call was written (not program state)
  text,     \* the argument of extract_data_for_visualization
  pc,       \* "idle", "patterns", "fallback", "finalize", "done", "raised"
  pi,       \* the index of the pattern of the loop of line 176
  matches,  \* the matches of that pattern still to process (line 178)
  ki,       \* the number of keywords the loop of line 209 has done
  data,     \* the dict the call builds and returns
  calls,    \* the number of calls made
  first,    \* what the first call returned
  \* the classifiers of 5-chat.py
  prompt,                    \* the question of the user
  returned,                  \* the classifiers that have returned
  is_visualization_request,  \* what detect_visualization_request returned
  chart_type,                \* what detect_chart_type returned
  \* setup_database.py
  present,        \* the files that exist in the working directory
  outcome,        \* how the run of each script ends
  db,             \* how the check of the database goes
  spc,            \* "not run", "files", "scripts", "returned", "exited"
  checked,        \* the files the loop of line 98 has checked
  missing_files,  \* line 97
  started,        \* the scripts main has run, in order
  db_checked,     \* check_database has been called
  success,        \* what main returned (line 135)
  exit_status,    \* the exit status of the process
  \* the script runs of 5-chat.py
  environ,           \* the environment variables of the deployment
  password_matches,  \* the password entered equals ACCESS_PASSWORD
  messages,          \* st.session_state.messages
  rpc,               \* the position of the script run, "waiting" between runs
  widget,            \* what triggered the run: "chat_input", "clear", "none"
  context,           \* what get_context returned (line 457)
  response,          \* the response of the turn (lines 532-543)
  trace,             \* the calls the run has made, in order
  messages_at_start, \* the history when the run started
  runs,              \* the number of runs started by the user
  \* test_database.py
  test_env,      \* what the database holds and how its calls end
  test_pc,       \* "not run", "connection", "table", "query", "summary",
                 \* "returned", "exited"
  test_stages,   \* the stages main has run, in order
  query_success, \* line 130
  test_success,  \* what main returned (line 148)
  test_printed,  \* the summary line main printed
  test_exit,     \* the exit status of the process
  \* memory_demo.py
  mpc,               \* "not run", "input", "search", "completion", "add",
                     \* "ended"
  typed,             \* what input() returned last
  user_input,        \* line 53
  memories,          \* what memory.add has stored: the turn and its message
  relevant_memories, \* line 25
  injected,          \* the memories in the system prompt of the turn
  mcalls,            \* the calls made since the last input, in order
  mturn              \* the number of inputs read

extract_vars == <<input, text, pc, pi, matches, ki, data, calls, first>>

classify_vars == <<prompt, returned, is_visualization_request, chart_type>>

setup_vars ==
  <<present, outcome, db, spc, checked, missing_files, started, db_checked,
    success, exit_status>>

chat_vars ==
  <<environ, password_matches, messages, rpc, widget, context, response,
    trace, messages_at_start, runs>>

dbtest_vars ==
  <<test_env, test_pc, test_stages, query_success, test_success,
    test_printed, test_exit>>

memory_vars ==
  <<mpc, typed, user_input, memories, relevant_memories, injected, mcalls,
    mturn>>

vars ==
  <<extract_vars, classify_vars, setup_vars, chat_vars, dbtest_vars,
    memory_vars>>

\* the dict of an earlier call used again in place of a new one
NewData_stale ==
  IF pc = "idle"
    THEN [categories |-> <<>>, values |-> <<>>, labels |-> <<>>,
          chart_type |-> "bar", title |-> "Real Estate Data Visualization"]
    ELSE data

\* lines 146-152
NewData ==
  [categories |-> <<>>, values |-> <<>>, labels |-> <<>>,
   chart_type |-> "bar", title |-> "Real Estate Data Visualization"]

\* no question has been asked
NoQuestion ==
  /\ prompt = <<>>
  /\ returned = {}
  /\ is_visualization_request = FALSE
  /\ chart_type = ""

\* setup_database.py is not run
NoSetup ==
  /\ present = {}
  /\ outcome = [s \in {} |-> "zero"]
  /\ db = "absent"
  /\ spc = "not run"
  /\ checked = <<>>
  /\ missing_files = <<>>
  /\ started = <<>>
  /\ db_checked = FALSE
  /\ success = FALSE
  /\ exit_status = 0

\* 5-chat.py is not run
NoChat ==
  /\ environ = [ENVIRONMENT |-> "development",
                AZURE_OPENAI_API_KEY |-> FALSE,
                AZURE_OPENAI_ENDPOINT |-> FALSE]
  /\ password_matches = FALSE
  /\ messages = <<>>
  /\ rpc = "not run"
  /\ widget = "none"
  /\ context = <<>>
  /\ response = ""
  /\ trace = <<>>
  /\ messages_at_start = <<>>
  /\ runs = 0

\* test_database.py is not run
NoDatabaseTest ==
  /\ test_env = [dir_exists |-> FALSE, connect |-> "raises",
                 table |-> "absent", rows |-> 0, empty_is_false |-> FALSE,
                 sample |-> "raises", vector |-> "no_column"]
  /\ test_pc = "not run"
  /\ test_stages = <<>>
  /\ query_success = FALSE
  /\ test_success = FALSE
  /\ test_printed = ""
  /\ test_exit = 0

\* memory_demo.py is not run
NoMemoryDemo ==
  /\ mpc = "not run"
  /\ typed = <<>>
  /\ user_input = <<>>
  /\ memories = {}
  /\ relevant_memories = {}
  /\ injected = {}
  /\ mcalls = <<>>
  /\ mturn = 0

Init ==
  /\ input \in Inputs
  /\ text = Render(input.entries, input.join)
  /\ pc = "idle"
  /\ pi = 0
  /\ matches = <<>>
  /\ ki = 0
  /\ data = NewData
  /\ calls = 0
  /\ first = NewData
  /\ NoQuestion
  /\ NoSetup
  /\ NoChat
  /\ NoDatabaseTest
  /\ NoMemoryDemo

\* lines 144-152: a call with the text; the dict is created
Call ==
  /\ pc \in {"idle", "done"}
  /\ calls < MaxCalls
  /\ first' = IF calls = 1 THEN data ELSE first
  /\ calls' = calls + 1
  /\ data' = NewData
  /\ pc' = "patterns"
  /\ pi' = 0
  /\ matches' = <<>>
  /\ ki' = 0
  /\ UNCHANGED <<input, text>>
  /\ UNCHANGED <<classify_vars, setup_vars, chat_vars, dbtest_vars, memory_vars>>

\* lines 176-177: the next pattern is applied to the text
NextPattern ==
  /\ pc = "patterns"
  /\ matches = <<>>
  /\ pi < Len(patterns)
  /\ pi' = pi + 1
  /\ matches' = FindAll(patterns[pi + 1], text)
  /\ UNCHANGED <<input, text, pc, ki, data, calls, first>>
  /\ UNCHANGED <<classify_vars, setup_vars, chat_vars, dbtest_vars, memory_vars>>

\* lines 184-197 for a match whose number parsed
Collect(d, category0, value) ==
  IF category0 # <<>> /\ Positive(value)
    THEN LET category == CleanCategory(category0)
         IN IF Acceptable(category) /\ ~IsDuplicate(category, d.categories)
              THEN [d EXCEPT !.categories = Append(@, category),
                             !.values     = Append(@, value),
                             !.labels     = Append(@, MakeLabel(category, value))]
              ELSE d
    ELSE d

\* lines 178-199: one match of the current pattern
ProcessMatch ==
  /\ pc = "patterns"
  /\ matches # <<>>
  /\ LET match     == Head(matches)
         category  == Strip(match[1])
         value_str == RemoveCommas(match[2])
         parsed    == ParseFloat(value_str)
     IN IF parsed.ok
          THEN /\ data' = Collect(data, category, parsed.val)
               /\ pc' = pc
          ELSE /\ data' = data
               /\ pc' = IF "ValueError" \in Caught THEN pc ELSE "raised"
  /\ matches' = Tail(matches)
  /\ UNCHANGED <<input, text, pi, ki, calls, first>>
  /\ UNCHANGED <<classify_vars, setup_vars, chat_vars, dbtest_vars, memory_vars>>

\* line 202: the pattern loop is over
PatternsDone ==
  /\ pc = "patterns"
  /\ matches = <<>>
  /\ pi = Len(patterns)
  /\ pc' = IF data.values = <<>> THEN "fallback" ELSE "finalize"
  /\ UNCHANGED <<input, text, pi, matches, ki, data, calls, first>>
  /\ UNCHANGED <<classify_vars, setup_vars, chat_vars, dbtest_vars, memory_vars>>

\* the last number of the text in place of the first
KeywordStep_lastNumber(d, keyword, t) ==
  IF Contains(Lower(t), keyword)
    THEN LET numbers == FindNumbers(t)
         IN IF numbers # <<>>
              THEN LET parsed == ParseFloat(numbers[Len(numbers)])
                   IN IF parsed.ok /\ Positive(parsed.val)
                        THEN [d EXCEPT
                                !.categories = Append(@, Title(keyword)),
                                !.values     = Append(@, parsed.val),
                                !.labels     = Append(@, MakeLabel(Title(keyword), parsed.val))]
                        ELSE d
              ELSE d
    ELSE d

\* lines 210-222 for one keyword
KeywordStep(d, keyword, t) ==
  IF Contains(Lower(t), keyword)
    THEN LET numbers == FindNumbers(t)
         IN IF numbers # <<>>
              THEN LET parsed == ParseFloat(numbers[1])
                   IN IF parsed.ok /\ Positive(parsed.val)
                        THEN [d EXCEPT
                                !.categories = Append(@, Title(keyword)),
                                !.values     = Append(@, parsed.val),
                                !.labels     = Append(@, MakeLabel(Title(keyword), parsed.val))]
                        ELSE d
              ELSE d
    ELSE d

\* lines 209-222: one keyword of the fallback loop
FallbackKeyword ==
  /\ pc = "fallback"
  /\ ki < Len(real_estate_keywords)
  /\ ki' = ki + 1
  /\ data' = KeywordStep(data, real_estate_keywords[ki + 1], text)
  /\ UNCHANGED <<input, text, pc, pi, matches, calls, first>>
  /\ UNCHANGED <<classify_vars, setup_vars, chat_vars, dbtest_vars, memory_vars>>

\* line 209: the keyword loop is over
FallbackDone ==
  /\ pc = "fallback"
  /\ ki = Len(real_estate_keywords)
  /\ pc' = "finalize"
  /\ UNCHANGED <<input, text, pi, matches, ki, data, calls, first>>
  /\ UNCHANGED <<classify_vars, setup_vars, chat_vars, dbtest_vars, memory_vars>>

RECURSIVE Column(_, _)
\* [item[k] for item in pairs]
Column(pairs, k) ==
  IF pairs = <<>> THEN <<>>
  ELSE <<Head(pairs)[k]>> \o Column(Tail(pairs), k)

\* the values sorted on their own, the categories left in place
Finalized_valuesOnly(d) ==
  IF d.values # <<>>
    THEN [d EXCEPT
            !.categories = Truncate(d.categories),
            !.values     = Truncate(Column(SortDesc(Zip(d.categories, d.values)), 2))]
    ELSE d

\* lines 225-234
Finalized(d) ==
  IF d.values # <<>>
    THEN LET sorted_data == SortDesc(Zip(d.categories, d.values))
         IN [d EXCEPT
               !.categories = Truncate(Column(sorted_data, 1)),
               !.values     = Truncate(Column(sorted_data, 2))]
    ELSE d

\* lines 224-236: sort, truncate, return
Finalize ==
  /\ pc = "finalize"
  /\ data' = Finalized(data)
  /\ pc' = "done"
  /\ UNCHANGED <<input, text, pi, matches, ki, calls, first>>
  /\ UNCHANGED <<classify_vars, setup_vars, chat_vars, dbtest_vars, memory_vars>>

Next ==
  \/ Call
  \/ NextPattern
  \/ ProcessMatch
  \/ PatternsDone
  \/ FallbackKeyword
  \/ FallbackDone
  \/ Finalize

Spec == Init /\ [][Next]_vars

\* ------------------------------------------------------------------------
\* The classifiers applied to a question
\* ------------------------------------------------------------------------
\* no text is being extracted from
NoExtraction ==
  /\ input = Written(<<>>)
  /\ text = <<>>
  /\ pc = "idle"
  /\ pi = 0
  /\ matches = <<>>
  /\ ki = 0
  /\ data = NewData
  /\ calls = 0
  /\ first = NewData

ClassifyInit ==
  /\ prompt \in Questions
  /\ returned = {}
  /\ is_visualization_request = FALSE
  /\ chart_type = ""
  /\ NoExtraction
  /\ NoSetup
  /\ NoChat
  /\ NoDatabaseTest
  /\ NoMemoryDemo

\* line 515: is_visualization_request = detect_visualization_request(prompt)
DetectVisualizationRequest ==
  /\ "detect_visualization_request" \notin returned
  /\ is_visualization_request' = detect_visualization_request(prompt)
  /\ returned' = returned \cup {"detect_visualization_request"}
  /\ UNCHANGED <<prompt, chart_type, extract_vars, setup_vars,
                 chat_vars, dbtest_vars, memory_vars>>

\* line 525: chart_type = detect_chart_type(prompt)
DetectChartType ==
  /\ "detect_chart_type" \notin returned
  /\ chart_type' = detect_chart_type(prompt)
  /\ returned' = returned \cup {"detect_chart_type"}
  /\ UNCHANGED <<prompt, is_visualization_request, extract_vars, setup_vars,
                 chat_vars, dbtest_vars, memory_vars>>

ClassifyNext ==
  \/ DetectVisualizationRequest
  \/ DetectChartType

ClassifySpec == ClassifyInit /\ [][ClassifyNext]_vars

\* ------------------------------------------------------------------------
\* setup_database.py: main and the exit of the process
\* ------------------------------------------------------------------------
SetupInit ==
  /\ present \in SUBSET {required_files[i] : i \in 1..Len(required_files)}
  /\ outcome \in [{scripts_to_run[i] : i \in 1..Len(scripts_to_run)} -> ScriptOutcomes]
  /\ db \in DatabaseOutcomes
  /\ spc = "files"
  /\ checked = <<>>
  /\ missing_files = <<>>
  /\ started = <<>>
  /\ db_checked = FALSE
  /\ success = FALSE
  /\ exit_status = 0
  /\ NoExtraction
  /\ NoQuestion
  /\ NoChat
  /\ NoDatabaseTest
  /\ NoMemoryDemo

\* lines 24-31
check_file_exists(filename) == filename \in present

\* every run taken for a success
run_script_alwaysTrue(script_name) == TRUE

\* lines 33-53: True for exit status 0, False for another status and for
\* an exception
run_script(script_name) == outcome[script_name] = "zero"

\* every check taken for a success
check_database_alwaysTrue == TRUE

\* lines 55-77: True when the table is listed, opened and counted
check_database == db = "found"

\* lines 98-100: one file of the loop
CheckFile ==
  /\ spc = "files"
  /\ Len(checked) < Len(required_files)
  /\ LET file == required_files[Len(checked) + 1]
     IN /\ checked' = Append(checked, file)
        /\ missing_files' =
             IF ~check_file_exists(file)
               THEN Append(missing_files, file)
               ELSE missing_files
  /\ UNCHANGED <<present, outcome, db, spc, started, db_checked, success,
                 exit_status, extract_vars, classify_vars,
                 chat_vars, dbtest_vars, memory_vars>>

\* lines 102-105: main returns False when a file is missing
FilesChecked ==
  /\ spc = "files"
  /\ Len(checked) = Len(required_files)
  /\ IF missing_files # <<>>
       THEN /\ success' = FALSE
            /\ spc' = "returned"
       ELSE /\ success' = success
            /\ spc' = "scripts"
  /\ UNCHANGED <<present, outcome, db, checked, missing_files, started,
                 db_checked, exit_status, extract_vars, classify_vars,
                 chat_vars, dbtest_vars, memory_vars>>

\* lines 114-121: the next script is run; main returns False when it fails
RunScript ==
  /\ spc = "scripts"
  /\ Len(started) < Len(scripts_to_run)
  /\ LET script == scripts_to_run[Len(started) + 1]
     IN /\ started' = Append(started, script)
        /\ IF ~run_script(script)
             THEN /\ success' = FALSE
                  /\ spc' = "returned"
             ELSE /\ success' = success
                  /\ spc' = spc
  /\ UNCHANGED <<present, outcome, db, checked, missing_files, db_checked,
                 exit_status, extract_vars, classify_vars,
                 chat_vars, dbtest_vars, memory_vars>>

\* lines 124-132: the database is checked and main returns
CheckDatabase ==
  /\ spc = "scripts"
  /\ Len(started) = Len(scripts_to_run)
  /\ db_checked' = TRUE
  /\ success' = check_database
  /\ spc' = "returned"
  /\ UNCHANGED <<present, outcome, db, checked, missing_files, started,
                 exit_status, extract_vars, classify_vars,
                 chat_vars, dbtest_vars, memory_vars>>

\* lines 134-137: sys.exit(1) when main returned False
Exit ==
  /\ spc = "returned"
  /\ exit_status' = IF ~success THEN 1 ELSE 0
  /\ spc' = "exited"
  /\ UNCHANGED <<present, outcome, db, checked, missing_files, started,
                 db_checked, success, extract_vars, classify_vars,
                 chat_vars, dbtest_vars, memory_vars>>

SetupNext ==
  \/ CheckFile
  \/ FilesChecked
  \/ RunScript
  \/ CheckDatabase
  \/ Exit

SetupSpec == SetupInit /\ [][SetupNext]_vars

\* ------------------------------------------------------------------------
\* Properties
\* ------------------------------------------------------------------------
Returned == pc = "done"

\* the value a numeral of the text stands for
NumeralValue(num) == ParseFloat(RemoveCommas(num)).val

\* a numeral that stands for a number greater than 0
PositiveNumeral(num) ==
  /\ ParseFloat(RemoveCommas(num)).ok
  /\ NumeralValue(num).num > 0

\* digits, or digits "." digits
PlainNumeral(num) ==
  /\ num # <<>>
  /\ Head(num) \in Digit
  /\ num[Len(num)] \in Digit
  /\ \A i \in 1..Len(num) : num[i] \in Digit \cup {"."}
  /\ Cardinality({i \in 1..Len(num) : num[i] = "."}) <= 1

NonIncreasing(vs) == \A i \in 1..(Len(vs) - 1) : ~Greater(vs[i + 1], vs[i])

\* the step that sorts, truncates and returns
FinalizeStep == pc = "finalize" /\ pc' = "done"

\* C1: the returned categories, values and labels have the same length.
C1_SameLengths ==
  Returned =>
    /\ Len(data.categories) = Len(data.values)
    /\ Len(data.values) = Len(data.labels)

\* C2: in the returned result labels[i] is the display string
\* "<categories[i]>: <values[i] formatted>" of the pair at the same index.
C2_LabelsParallel ==
  Returned =>
    \A i \in 1..Len(data.categories) :
      /\ i <= Len(data.labels)
      /\ i <= Len(data.values)
      /\ data.labels[i] = MakeLabel(data.categories[i], data.values[i])

\* C3: the step that returns leaves the values sorted non-increasing, and
\* every returned (category, value) pair is a pair that was collected
\* together.
C3_SortedWholePairs ==
  [][FinalizeStep =>
       /\ NonIncreasing(data'.values)
       /\ Len(data'.categories) = Len(data'.values)
       /\ \A i \in 1..Len(data'.categories) :
            \E j \in 1..Len(data.categories) :
              /\ data.categories[j] = data'.categories[i]
              /\ data.values[j] = data'.values[i]]_vars

\* C3 witness: a call returned two or more pairs in another order than
\* they were collected in (the labels keep the order of collection).
C3_Witness ==
  /\ Returned
  /\ Len(data.values) >= 2
  /\ Greater(data.values[1], data.values[2])
  /\ data.labels[1] # MakeLabel(data.categories[1], data.values[1])

\* C4: the result has at most 10 categories; when more than 10 pairs were
\* collected, exactly 10 of them are returned and no discarded pair has a
\* value strictly greater than a returned one.
C4_TopTen ==
  [][FinalizeStep =>
       /\ Len(data'.categories) <= 10
       /\ Len(data'.values) <= 10
       /\ Len(data.values) > 10 =>
            /\ Len(data'.categories) = 10
            /\ Len(data'.values) = 10
            /\ \A i \in 1..10 :
                 \E j \in 1..Len(data.categories) :
                   /\ data.categories[j] = data'.categories[i]
                   /\ data.values[j] = data'.values[i]
            /\ \A j \in 1..Len(data.categories) :
                 (\A i \in 1..10 : data'.categories[i] # data.categories[j])
                   => \A i \in 1..10 : ~Greater(data.values[j], data'.values[i])]_vars

\* C4 witness: a call that collected more than 10 pairs (one label per
\* collected pair) returned 10.
C4_Witness ==
  /\ Returned
  /\ Len(data.labels) > 10
  /\ Len(data.categories) = 10

\* C5: no two returned categories are equal.
C5_DistinctCategories ==
  Returned =>
    \A i, j \in 1..Len(data.categories) :
      i # j => data.categories[i] # data.categories[j]

\* C5 witness: a text with the same label on two lines, both with a
\* positive number, returned one category.
C5_Witness ==
  /\ Returned
  /\ Len(input.entries) = 2
  /\ input.join = LineJoin
  /\ input.entries[1].label = input.entries[2].label
  /\ input.entries[1].sep = Colon
  /\ input.entries[2].sep = Colon
  /\ PositiveNumeral(input.entries[1].num)
  /\ PositiveNumeral(input.entries[2].num)
  /\ Len(data.categories) = 1

\* C6: every value of the dict is strictly greater than 0, in the pattern
\* phase, in the fallback and in the returned result.
C6_PositiveValues ==
  \A i \in 1..Len(data.values) : data.values[i].num > 0

\* C6 witness: a text whose first entry is "Revenue: 0" returned a result
\* with the other entry only.
C6_Witness ==
  /\ Returned
  /\ Len(input.entries) = 2
  /\ input.entries[1] = Entry(Revenue, Colon, <<"0">>)
  /\ Len(data.values) = 1

\* C7: a label written twice as "Label: value" with different positive
\* values gives one data point, with the value of the first occurrence.
C7_FirstOccurrenceWins ==
  ( /\ Returned
    /\ Len(input.entries) = 2
    /\ input.entries[1].label = input.entries[2].label
    /\ input.entries[1].label \in {Revenue, MarketPrice}
    /\ input.entries[1].sep = Colon
    /\ input.entries[2].sep = Colon
    /\ PositiveNumeral(input.entries[1].num)
    /\ PositiveNumeral(input.entries[2].num)
    /\ NumeralValue(input.entries[1].num) # NumeralValue(input.entries[2].num) )
  => /\ data.categories = <<input.entries[1].label>>
     /\ data.values = <<NumeralValue(input.entries[1].num)>>

\* C8: the call never raises, and a result without values has no
\* categories and no labels either.
C8_NeverRaisesWellFormedEmpty ==
  /\ pc # "raised"
  /\ (Returned /\ data.values = <<>>) =>
       (data.categories = <<>> /\ data.labels = <<>>)

\* C8 witness: the text "Revenue: ," (a number that does not parse)
\* returned the empty result.
C8_Witness ==
  /\ Returned
  /\ input.entries = <<Entry(Revenue, Colon, <<",">>)>>
  /\ data.categories = <<>>
  /\ data.values = <<>>
  /\ data.labels = <<>>

PlainList ==
  LET es == input.entries
  IN /\ Len(es) \in 1..10
     /\ input.join = CommaJoin
     /\ \A k \in 1..Len(es) :
          /\ es[k].sep = Colon
          /\ Len(es[k].label) > 3
          /\ \A i \in 1..Len(es[k].label) :
               es[k].label[i] \in LowerLetters \cup UpperLetters
          /\ ~ \E w \in 1..Len(SkipWords) : Contains(Lower(es[k].label), SkipWords[w])
          /\ PlainNumeral(es[k].num)
          /\ PositiveNumeral(es[k].num)
     /\ \A k, l \in 1..Len(es) :
          k # l => /\ es[k].label # es[l].label
                   /\ NumeralValue(es[k].num) # NumeralValue(es[l].num)

\* C10: for such a list the categories are the labels as written, ordered
\* by decreasing number, and the values are their numbers.
C10_ListInOrder ==
  (Returned /\ PlainList) =>
    /\ Len(data.categories) = Len(input.entries)
    /\ Len(data.values) = Len(input.entries)
    /\ \A i \in 1..(Len(data.values) - 1) : Greater(data.values[i], data.values[i + 1])
    /\ \A i \in 1..Len(data.categories) :
         \E k \in 1..Len(input.entries) :
           /\ data.categories[i] = input.entries[k].label
           /\ data.values[i] = NumeralValue(input.entries[k].num)

\* C11: for the text "Total: KD 5.2 billion" the call returns exactly one
\* data point, its value is 5.2, and its category holds no ':' (so it is not
\* the raw text "Total:").
C11_TotalKD ==
  (Returned /\ text = TotalKD) =>
    /\ Len(data.categories) = 1
    /\ Len(data.values) = 1
    /\ data.values[1] = [num |-> 52, frac |-> 1]
    /\ \A i \in 1..Len(data.categories[1]) : data.categories[1][i] # ":"

\* the call with "Total: KD 5.2 billion" has returned its data point
C11_Witness ==
  /\ Returned
  /\ text = TotalKD
  /\ data.categories = << <<"T","o","t","a","l">> >>

\* ------------------------------------------------------------------------
\* Properties of the classifiers
\* ------------------------------------------------------------------------
VisualizationClassified == "detect_visualization_request" \in returned

ChartTypeClassified == "detect_chart_type" \in returned

\* the question, lower-cased, holds the phrase
Holds(phrase) == Contains(Lower(prompt), phrase)

\* C12: detect_visualization_request returns True exactly when the
\* lower-cased question holds at least one explicit chart-request phrase and
\* none of the text-only phrases; a text-only phrase overrides a chart
\* phrase, and "what is the average price" gives False.
C12_ChartRequestIff ==
  VisualizationClassified =>
    /\ is_visualization_request <=>
         /\ \E i \in 1..Len(explicit_visualization_keywords) :
               Holds(explicit_visualization_keywords[i])
         /\ \A i \in 1..Len(text_only_keywords) :
               ~Holds(text_only_keywords[i])
    /\ prompt = WhatIsTheAveragePrice => ~is_visualization_request

\* a question with a chart phrase and a text-only phrase was classified
C12_Witness ==
  /\ VisualizationClassified
  /\ \E i \in 1..Len(explicit_visualization_keywords) :
        Holds(explicit_visualization_keywords[i])
  /\ \E i \in 1..Len(text_only_keywords) : Holds(text_only_keywords[i])
  /\ ~is_visualization_request

\* C13: detect_visualization_request("create a bar chart of prices") returns
\* True.
C13_BarChartOfPrices ==
  (VisualizationClassified /\ prompt = CreateBarChartOfPrices) =>
    is_visualization_request

\* C14: each of the four example queries of the sidebar is classified as a
\* visualization request.
C14_SidebarExamples ==
  (VisualizationClassified /\ prompt \in SidebarExamples) =>
    is_visualization_request

\* the rules of the chart type in their order: the two-word phrases of bar,
\* pie, line, scatter, then the single keywords of bar, pie, line, scatter
ChartRules ==
  << [kind |-> "bar",
        phrases |-> { <<"b","a","r"," ","c","h","a","r","t">>,
                     <<"b","a","r"," ","g","r","a","p","h">> }],
     [kind |-> "pie",
        phrases |-> { <<"p","i","e"," ","c","h","a","r","t">>,
                     <<"p","i","e"," ","g","r","a","p","h">> }],
     [kind |-> "line",
        phrases |-> { <<"l","i","n","e"," ","c","h","a","r","t">>,
                     <<"l","i","n","e"," ","g","r","a","p","h">> }],
     [kind |-> "scatter",
        phrases |-> { <<"s","c","a","t","t","e","r"," ","p","l","o","t">>,
                     <<"s","c","a","t","t","e","r"," ","c","h","a","r","t">> }],
     [kind |-> "bar",
        phrases |-> { <<"b","a","r">>,
                     <<"c","o","l","u","m","n">>,
                     <<"v","e","r","t","i","c","a","l">>,
                     <<"h","o","r","i","z","o","n","t","a","l">> }],
     [kind |-> "pie",
        phrases |-> { <<"p","i","e">>,
                     <<"c","i","r","c","l","e">>,
                     <<"d","o","n","u","t">>,
                     <<"s","e","c","t","o","r">> }],
     [kind |-> "line",
        phrases |-> { <<"l","i","n","e">> }],
     [kind |-> "scatter",
        phrases |-> { <<"s","c","a","t","t","e","r">>,
                     <<"p","o","i","n","t">>,
                     <<"c","o","r","r","e","l","a","t","i","o","n">> }] >>

RuleMatches(k) == \E phrase \in ChartRules[k].phrases : Holds(phrase)

\* C15: detect_chart_type returns the kind of the first rule, in the fixed
\* order, that the lower-cased question matches; so a two-word phrase wins
\* over a single keyword of another kind.
C15_FirstRuleWins ==
  ChartTypeClassified =>
    \A k \in 1..Len(ChartRules) :
       (RuleMatches(k) /\ \A j \in 1..(k - 1) : ~RuleMatches(j))
         => chart_type = ChartRules[k].kind

\* a question with "pie chart" and the keyword "bar" was classified as pie
C15_Witness ==
  /\ ChartTypeClassified
  /\ Holds(<<"p","i","e"," ","c","h","a","r","t">>)
  /\ Holds(<<"b","a","r">>)
  /\ ~Holds(<<"b","a","r"," ","c","h","a","r","t">>)
  /\ chart_type = "pie"

\* C16: detect_chart_type returns one of bar, pie, line, scatter, and bar
\* when the question holds no phrase and no keyword of any rule.
C16_BarByDefault ==
  ChartTypeClassified =>
    /\ chart_type \in {"bar", "pie", "line", "scatter"}
    /\ (\A k \in 1..Len(ChartRules) : ~RuleMatches(k)) => chart_type = "bar"

\* "summarize results" was classified as bar
C16_Witness ==
  /\ ChartTypeClassified
  /\ prompt = SummarizeResults
  /\ \A k \in 1..Len(ChartRules) : ~RuleMatches(k)
  /\ chart_type = "bar"

\* ------------------------------------------------------------------------
\* Properties of setup_database.py
\* ------------------------------------------------------------------------
AllFilesPresent ==
  \A i \in 1..Len(required_files) : required_files[i] \in present

AllScriptsExitedZero ==
  \A i \in 1..Len(scripts_to_run) : outcome[scripts_to_run[i]] = "zero"

\* C17: main starts the scripts in the order 1-extraction.py, 2-chunking.py,
\* 3-embedding.py; a script is started only if the four required files were
\* found and every earlier script exited with status 0; after a missing file
\* or a failing script no later script is started and check_database is not
\* called.
C17_ScriptsInOrder ==
  /\ Len(started) <= 3
  /\ \A i \in 1..Len(started) :
        started[i] = <<"1-extraction.py", "2-chunking.py", "3-embedding.py">>[i]
  /\ started # <<>> => AllFilesPresent
  /\ \A i \in 1..Len(started) :
        \A j \in 1..(i - 1) : outcome[started[j]] = "zero"
  /\ db_checked =>
        /\ AllFilesPresent
        /\ Len(started) = 3
        /\ \A i \in 1..Len(started) : outcome[started[i]] = "zero"

\* the second script failed: the third was not started, the database not
\* checked
C17_Witness ==
  /\ spc = "exited"
  /\ Len(started) = 2
  /\ outcome[started[2]] # "zero"
  /\ ~db_checked

\* C18: main returns True exactly when the four required files exist, the
\* three scripts exit with status 0 and check_database finds the table
\* 'docling' without an exception; in every other case, an exception of a
\* launch or of the check of the database included, main returns False and
\* the process exits with status 1.
C18_SuccessIff ==
  /\ spc \in {"returned", "exited"} =>
       (success <=> (AllFilesPresent /\ AllScriptsExitedZero /\ db = "found"))
  /\ (spc = "exited" /\ ~success) => exit_status = 1

\* the table was listed but opening it raised: main returned False and the
\* process exited with status 1
C18_Witness ==
  /\ spc = "exited"
  /\ db_checked
  /\ db = "open_error"
  /\ ~success
  /\ exit_status = 1

\* ------------------------------------------------------------------------
\* Properties of the keyword fallback and of the discarded labels
\* ------------------------------------------------------------------------
\* the keyword loop is running or has run in this call
InFallback == pc = "fallback" \/ (pc = "finalize" /\ ki > 0)

\* the pattern loop is over and the keyword loop was skipped
FallbackSkipped == pc = "finalize" /\ ki = 0

\* the keywords, among the first n of the list, that occur in the
\* lower-cased text, in the order of the list
OccurringKeywords(n) ==
  SelectSeq(SubSeq(real_estate_keywords, 1, n),
            LAMBDA keyword : Contains(Lower(text), keyword))

\* the plain numbers of the text, in order
PlainNumbers == FindNumbers(text)

FirstPlainNumber == ParseFloat(PlainNumbers[1]).val

\* the data holds one point per keyword of ks, in order, each with the
\* first plain number of the text
OnePointPerKeyword(ks) ==
  /\ Len(data.categories) = Len(ks)
  /\ Len(data.values) = Len(ks)
  /\ \A i \in 1..Len(ks) :
        /\ data.categories[i] = Title(ks[i])
        /\ data.values[i] = FirstPlainNumber

\* C19, as claimed: the keyword fallback runs only when the pattern phase
\* collected nothing; it emits, in the order of the list, one data point per
\* keyword that occurs in the text, each with the first plain number of the
\* text; when the pattern phase collected a data point the fallback adds
\* nothing.
C19_OnePointPerOccurringKeyword ==
  /\ InFallback => OnePointPerKeyword(OccurringKeywords(ki))
  /\ FallbackSkipped => data.values # <<>>

\* C19, amended: the same, provided the text holds a plain number and the
\* first one is greater than 0; otherwise the fallback emits nothing.
C19_OnePointPerKeywordGivenPositiveNumber ==
  /\ InFallback =>
       IF PlainNumbers # <<>> /\ FirstPlainNumber.num > 0
         THEN OnePointPerKeyword(OccurringKeywords(ki))
         ELSE data.categories = <<>> /\ data.values = <<>>
  /\ FallbackSkipped => data.values # <<>>

\* the fallback has emitted two data points for a text with two numbers
C19_Witness ==
  /\ pc = "finalize"
  /\ ki = Len(real_estate_keywords)
  /\ Len(PlainNumbers) >= 2
  /\ PlainNumbers[1] # PlainNumbers[Len(PlainNumbers)]
  /\ Len(data.categories) = 2
  /\ data.values = <<FirstPlainNumber, FirstPlainNumber>>

\* the label of a raw match after the clean-up of lines 179-187
Normalized(raw) == CleanCategory(Strip(raw))

\* a label of a citation line, or too short a label
CitationMarker(raw) ==
  \/ Contains(Lower(raw), <<"s","o","u","r","c","e",":">>)
  \/ \E word \in { <<"p","a","g","e">>, <<"f","i","l","e">>, <<"p","d","f">>,
                   <<"r","e","p","o","r","t">>, <<"t","i","t","l","e">> } :
        Contains(Lower(Normalized(raw)), word)
  \/ Len(Normalized(raw)) <= 3

\* C20: a raw match of the pattern phase whose label holds 'source:' (in any
\* case), or whose normalized lower-cased label holds 'page', 'file', 'pdf',
\* 'report' or 'title', or whose normalized label has 3 characters or fewer,
\* adds no data point.
C20_CitationDiscarded ==
  [][ (pc = "patterns" /\ matches # <<>> /\ CitationMarker(Head(matches)[1]))
        => data' = data ]_vars

\* ------------------------------------------------------------------------
\* Properties of the emitted labels
\* ------------------------------------------------------------------------
\* only letters, digits, single spaces, '&' and '-'; no space at either end
FullyNormalized(category) ==
  /\ \A i \in 1..Len(category) :
        category[i] \in LowerLetters \cup UpperLetters \cup Digit \cup {" ", "&", "-"}
  /\ category # <<>> => (category[1] # " " /\ category[Len(category)] # " ")
  /\ \A i \in 1..(Len(category) - 1) :
        ~(category[i] = " " /\ category[i + 1] = " ")

\* C21: every category the pattern phase has emitted is fully normalized:
\* only letters, digits, single spaces, '&' and '-', no space at either end,
\* no two spaces in a row.
C21_NormalizedCategories ==
  pc = "patterns" =>
    \A i \in 1..Len(data.categories) : FullyNormalized(data.categories[i])

\* ------------------------------------------------------------------------
\* test_database.py: main and the exit of the process
\* ------------------------------------------------------------------------
\* what the database holds and how the calls on it end:
\*   dir_exists      os.path.exists(db_path), line 29
\*   connect         lancedb.connect returns or raises, line 34
\*   table           table_names raises, 'docling' is absent, opening or
\*                   counting or the schema raises, the table is opened
\*                   (lines 48-64)
\*   rows            the table is empty or not, lines 60 and 79
\*   empty_is_false  the truth value of the table object when it is empty
\*                   (line 123 tests the object)
\*   sample          to_pandas().head(1) raises, is empty, holds a row
\*                   (lines 84-90)
\*   vector          the row has no vector column, an empty vector, a
\*                   non-empty one, or the test of line 95 raises
TestInit ==
  /\ test_env \in
       [dir_exists : BOOLEAN,
        connect : {"ok", "raises"},
        table : {"raises", "absent", "open_raises", "opened"},
        rows : {0, 1},
        empty_is_false : BOOLEAN,
        sample : {"raises", "empty", "row"},
        vector : {"no_column", "empty", "nonempty", "raises"}]
  /\ test_pc = "connection"
  /\ test_stages = <<>>
  /\ query_success = FALSE
  /\ test_success = FALSE
  /\ test_printed = ""
  /\ test_exit = 0
  /\ NoExtraction
  /\ NoQuestion
  /\ NoSetup
  /\ NoChat
  /\ NoMemoryDemo

\* lines 20-40: the connection, or False
test_database_connection ==
  test_env.dir_exists /\ test_env.connect = "ok"

\* lines 42-71: the table, or False
test_table_access == test_env.table = "opened"

\* lines 73-106: False for an empty table, an empty sample and an
\* exception; the tests of the vector column only print
test_sample_query ==
  /\ test_env.rows # 0
  /\ test_env.sample = "row"
  /\ test_env.vector # "raises"

\* lines 114-119
TestConnection ==
  /\ test_pc = "connection"
  /\ test_stages' = Append(test_stages, "connection")
  /\ IF ~test_database_connection
       THEN /\ test_success' = FALSE
            /\ test_pc' = "returned"
       ELSE /\ test_success' = test_success
            /\ test_pc' = "table"
  /\ UNCHANGED <<test_env, query_success, test_printed, test_exit,
                 extract_vars, classify_vars, setup_vars, chat_vars,
                 memory_vars>>

\* lines 122-127: "not table" holds for False and, if the table object of
\* an empty table is false, for an empty table
TestTableAccess ==
  /\ test_pc = "table"
  /\ test_stages' = Append(test_stages, "table")
  /\ IF ~test_table_access \/ (test_env.rows = 0 /\ test_env.empty_is_false)
       THEN /\ test_success' = FALSE
            /\ test_pc' = "returned"
       ELSE /\ test_success' = test_success
            /\ test_pc' = "query"
  /\ UNCHANGED <<test_env, query_success, test_printed, test_exit,
                 extract_vars, classify_vars, setup_vars, chat_vars,
                 memory_vars>>

\* line 130
TestSampleQuery ==
  /\ test_pc = "query"
  /\ test_stages' = Append(test_stages, "query")
  /\ query_success' = test_sample_query
  /\ test_pc' = "summary"
  /\ UNCHANGED <<test_env, test_success, test_printed, test_exit,
                 extract_vars, classify_vars, setup_vars, chat_vars,
                 memory_vars>>

\* lines 133-145
TestSummary ==
  /\ test_pc = "summary"
  /\ IF query_success
       THEN /\ test_printed' = "All database tests passed!"
            /\ test_success' = TRUE
       ELSE /\ test_printed' = "Database tests partially passed"
            /\ test_success' = FALSE
  /\ test_pc' = "returned"
  /\ UNCHANGED <<test_env, test_stages, query_success, test_exit,
                 extract_vars, classify_vars, setup_vars, chat_vars,
                 memory_vars>>

\* lines 147-150
TestExit ==
  /\ test_pc = "returned"
  /\ test_exit' = IF ~test_success THEN 1 ELSE 0
  /\ test_pc' = "exited"
  /\ UNCHANGED <<test_env, test_stages, query_success, test_success,
                 test_printed, extract_vars, classify_vars, setup_vars,
                 chat_vars, memory_vars>>

TestNext ==
  \/ TestConnection
  \/ TestTableAccess
  \/ TestSampleQuery
  \/ TestSummary
  \/ TestExit

TestSpec == TestInit /\ [][TestNext]_vars

\* C25: test_database.main reports success (returns True and prints 'All
\* database tests passed!') only if the connection succeeded, the table
\* 'docling' was opened, the table is not empty and the sampled row has a
\* vector column with a non-empty vector; a stage runs only if every
\* earlier stage succeeded.
C25_SuccessOnlyIfVector ==
  /\ (test_pc \in {"returned", "exited"}
      /\ (test_success \/ test_printed = "All database tests passed!")) =>
        /\ test_env.dir_exists /\ test_env.connect = "ok"
        /\ test_env.table = "opened"
        /\ test_env.rows > 0
        /\ test_env.vector = "nonempty"
  /\ \A i \in 1..Len(test_stages) :
        /\ test_stages[i] = <<"connection", "table", "query">>[i]
        /\ i >= 2 => (test_env.dir_exists /\ test_env.connect = "ok")
        /\ i >= 3 => test_env.table = "opened"

\* ------------------------------------------------------------------------
\* memory_demo.py: the chat loop of main and chat_with_memories
\* ------------------------------------------------------------------------
MaxInputs == 3

\* line 25: limit=3
SearchLimit == 3

ExitWord == <<"e","x","i","t">>

\* what the user can type at the prompt
TypedInputs ==
  { ExitWord,
    <<"E","X","I","T">>,
    <<" ","E","x","i","t"," ">>,
    <<"e","x","i","t"," ","n","o","w">>,
    <<"e","x","i","t","s">>,
    <<"h","e","l","l","o">>,
    <<>> }

\* "exit" in lower case only
IsExit_caseSensitive(s) == s = ExitWord

\* line 54: user_input.lower() == "exit"
IsExit(s) == Lower(s) = ExitWord

MemoryInit ==
  /\ mpc = "input"
  /\ typed = <<>>
  /\ user_input = <<>>
  /\ memories = {}
  /\ relevant_memories = {}
  /\ injected = {}
  /\ mcalls = <<>>
  /\ mturn = 0
  /\ NoExtraction
  /\ NoQuestion
  /\ NoSetup
  /\ NoChat
  /\ NoDatabaseTest

\* lines 53-57: an input is read; "exit" ends the loop, anything else is
\* passed to chat_with_memories
ReadInput ==
  /\ mpc = "input"
  /\ mturn < MaxInputs
  /\ \E t \in TypedInputs :
        /\ typed' = t
        /\ user_input' = Strip(t)
        /\ mpc' = IF IsExit(Strip(t)) THEN "ended" ELSE "search"
  /\ mturn' = mturn + 1
  /\ mcalls' = <<>>
  /\ UNCHANGED <<memories, relevant_memories, injected, extract_vars,
                 classify_vars, setup_vars, chat_vars, dbtest_vars>>

\* lines 25-29: memory.search returns at most 3 of the stored memories
Search ==
  /\ mpc = "search"
  /\ \E found \in SUBSET memories :
        /\ Cardinality(found) <= SearchLimit
        /\ relevant_memories' = found
  /\ mcalls' = Append(mcalls, "memory.search")
  /\ mpc' = "completion"
  /\ UNCHANGED <<typed, user_input, memories, injected, mturn, extract_vars,
                 classify_vars, setup_vars, chat_vars, dbtest_vars>>

\* lines 32-40: the chat completion, with the memories found in the system
\* prompt
Completion ==
  /\ mpc = "completion"
  /\ injected' = relevant_memories
  /\ mcalls' = Append(mcalls, "chat.completions.create")
  /\ mpc' = "add"
  /\ UNCHANGED <<typed, user_input, memories, relevant_memories, mturn,
                 extract_vars, classify_vars, setup_vars, chat_vars,
                 dbtest_vars>>

\* lines 43-47: the conversation of the turn is stored, and the loop goes on
Add ==
  /\ mpc = "add"
  /\ memories' = memories \cup {[turn |-> mturn, message |-> user_input]}
  /\ mcalls' = Append(mcalls, "memory.add")
  /\ mpc' = "input"
  /\ UNCHANGED <<typed, user_input, relevant_memories, injected, mturn,
                 extract_vars, classify_vars, setup_vars, chat_vars,
                 dbtest_vars>>

MemoryNext ==
  \/ ReadInput
  \/ Search
  \/ Completion
  \/ Add

MemorySpec == MemoryInit /\ [][MemoryNext]_vars

\* the input typed last is "exit", whatever its case and the white space
\* around it
TypedExit ==
  LET inner == {i \in 1..Len(typed) : typed[i] \notin Space}
  IN /\ Cardinality(inner) = 4
     /\ \E a \in inner :
           /\ inner = a..(a + 3)
           /\ typed[a] \in {"e", "E"}
           /\ typed[a + 1] \in {"x", "X"}
           /\ typed[a + 2] \in {"i", "I"}
           /\ typed[a + 3] \in {"t", "T"}

MaxRuns == 2

\* lines 379-383
definition_keywords ==
  << <<"w","h","a","t"," ","i","s">>,
     <<"w","h","a","t"," ","a","r","e">>,
     <<"d","e","f","i","n","i","t","i","o","n">>,
     <<"d","e","f","i","n","e">>,
     <<"w","h","a","t"," ","d","o","e","s"," ","m","e","a","n">>,
     <<"w","h","a","t"," ","d","o","e","s"," ","t","h","i","s"," ","m","e","a","n">>,
     <<"e","x","p","l","a","i","n">>,
     <<"d","e","s","c","r","i","b","e">>,
     <<"t","e","l","l"," ","m","e"," ","a","b","o","u","t">>,
     <<"m","e","a","n","i","n","g"," ","o","f">>,
     <<"c","o","n","c","e","p","t"," ","o","f">>,
     <<"u","n","d","e","r","s","t","a","n","d","i","n","g">> >>

\* lines 375-385
detect_definition_request(s) == AnyIn(definition_keywords, Lower(s))

ChatInit ==
  /\ environ \in
       [ENVIRONMENT : {"production", "development"},
        AZURE_OPENAI_API_KEY : BOOLEAN,
        AZURE_OPENAI_ENDPOINT : BOOLEAN]
  /\ password_matches = FALSE
  /\ messages = <<>>
  /\ rpc = "waiting"
  /\ widget = "none"
  /\ context = <<>>
  /\ response = ""
  /\ trace = <<>>
  /\ messages_at_start = <<>>
  /\ runs = 0
  /\ prompt = <<>>
  /\ returned = {}
  /\ is_visualization_request = FALSE
  /\ chart_type = ""
  /\ NoExtraction
  /\ NoSetup
  /\ NoDatabaseTest
  /\ NoMemoryDemo

\* the user submits a question (a chart request, a definition question or
\* another question), clicks "Clear Chat History", or does something else
\* (types a password): the script runs from the top
StartRun ==
  /\ rpc = "waiting"
  /\ runs < MaxRuns
  /\ runs' = runs + 1
  /\ \E w \in {"chat_input", "clear", "none"} :
        /\ widget' = w
        /\ IF w = "chat_input"
             THEN prompt' \in {ShowMeAPieChart, WhatIsTheAveragePrice,
                               SummarizeResults}
             ELSE prompt' = <<>>
  /\ IF environ.ENVIRONMENT = "production"
       THEN password_matches' \in BOOLEAN
       ELSE password_matches' = FALSE
  /\ trace' = <<>>
  /\ messages_at_start' = messages
  /\ rpc' = "password"
  /\ UNCHANGED <<environ, messages, context, response, returned,
                 is_visualization_request, chart_type, extract_vars,
                 setup_vars, dbtest_vars, memory_vars>>

\* the password test ignored
WrongPassword_never == FALSE

\* lines 418-420
WrongPassword ==
  environ.ENVIRONMENT = "production" /\ ~password_matches

\* lines 425-426: the required variables that are unset or empty
missing_vars ==
  SelectSeq(<<"AZURE_OPENAI_API_KEY", "AZURE_OPENAI_ENDPOINT">>,
            LAMBDA var : ~environ[var])

\* lines 418-422: st.stop() on a wrong password in production
PasswordGate ==
  /\ rpc = "password"
  /\ rpc' = IF WrongPassword THEN "waiting" ELSE "config"
  /\ UNCHANGED <<environ, password_matches, messages, widget, context,
                 response, trace, messages_at_start, runs, extract_vars,
                 classify_vars, setup_vars, dbtest_vars, memory_vars>>

\* lines 425-431: st.stop() when a required variable is not set
ConfigGate ==
  /\ rpc = "config"
  /\ rpc' = IF missing_vars # <<>> THEN "waiting" ELSE "session"
  /\ UNCHANGED <<environ, password_matches, messages, widget, context,
                 response, trace, messages_at_start, runs, extract_vars,
                 classify_vars, setup_vars, dbtest_vars, memory_vars>>

\* lines 434-444: the history is created if absent (absent and empty are
\* both the empty sequence here), the table is opened, the history shown
InitSession ==
  /\ rpc = "session"
  /\ trace' = Append(trace, "init_db")
  /\ rpc' = "chat_input"
  /\ UNCHANGED <<environ, password_matches, messages, widget, context,
                 response, messages_at_start, runs, extract_vars,
                 classify_vars, setup_vars, dbtest_vars, memory_vars>>

\* lines 447-453: a submitted question is appended to the history
ChatInput ==
  /\ rpc = "chat_input"
  /\ IF widget = "chat_input"
       THEN /\ messages' = Append(messages, [role |-> "user", content |-> prompt])
            /\ rpc' = "context"
       ELSE /\ messages' = messages
            /\ rpc' = "sidebar"
  /\ UNCHANGED <<environ, password_matches, widget, context, response, trace,
                 messages_at_start, runs, extract_vars, classify_vars,
                 setup_vars, dbtest_vars, memory_vars>>

\* line 457: get_context embeds the question and searches the table; it
\* returns a context (here a text with a data point or a text with none)
\* or raises, and an exception ends the run
GetContext ==
  /\ rpc = "context"
  /\ trace' = Append(trace, "get_context")
  /\ \/ /\ context' \in {TotalKD, NoNumber}
        /\ rpc' = "classify"
     \/ /\ context' = context
        /\ rpc' = "waiting"
  /\ UNCHANGED <<environ, password_matches, messages, widget, response,
                 messages_at_start, runs, extract_vars, classify_vars,
                 setup_vars, dbtest_vars, memory_vars>>

\* lines 515-519
Classify ==
  /\ rpc = "classify"
  /\ is_visualization_request' = detect_visualization_request(prompt)
  /\ trace' = Append(trace, "detect_visualization_request")
  /\ rpc' = IF detect_visualization_request(prompt) THEN "extract" ELSE "completion"
  /\ UNCHANGED <<environ, password_matches, messages, widget, context,
                 response, messages_at_start, runs, prompt, returned,
                 chart_type, extract_vars, setup_vars, dbtest_vars,
                 memory_vars>>

\* line 521: extract_data_for_visualization(context) is called; its steps
\* are NextPattern ... Finalize
ExtractContext ==
  /\ rpc = "extract"
  /\ input' = Written(context)
  /\ text' = context
  /\ data' = NewData
  /\ pc' = "patterns"
  /\ pi' = 0
  /\ matches' = <<>>
  /\ ki' = 0
  /\ trace' = Append(trace, "extract_data_for_visualization")
  /\ rpc' = "chart"
  /\ UNCHANGED <<calls, first, environ, password_matches, messages, widget,
                 context, response, messages_at_start, runs, classify_vars,
                 setup_vars, dbtest_vars, memory_vars>>

\* a chart whatever was extracted
HasValues_always(viz_data) == TRUE

\* line 523: if viz_data['values']
HasValues(viz_data) == viz_data.values # <<>>

\* lines 523-536: the chart, or the message that no data was found
ChartOrWarning ==
  /\ rpc = "chart"
  /\ pc = "done"
  /\ IF HasValues(data)
       THEN /\ chart_type' = detect_chart_type(prompt)
            /\ trace' = trace \o <<"detect_chart_type", "plotly_chart">>
            /\ response' = "Generated chart"
       ELSE /\ chart_type' = chart_type
            /\ trace' = Append(trace, "warning")
            /\ response' = "No numerical data found"
  /\ rpc' = "append"
  /\ UNCHANGED <<environ, password_matches, messages, widget, context,
                 messages_at_start, runs, prompt, returned,
                 is_visualization_request, extract_vars, setup_vars,
                 dbtest_vars, memory_vars>>

\* lines 539-543: the chat completion, which returns or raises, and the
\* formatting of the answer to a definition question
GetChatResponse ==
  /\ rpc = "completion"
  /\ \/ /\ trace' = trace \o
                      IF detect_definition_request(prompt)
                        THEN <<"get_chat_response", "format_definition_response">>
                        ELSE <<"get_chat_response">>
        /\ response' = IF detect_definition_request(prompt)
                         THEN "definition"
                         ELSE "answer"
        /\ rpc' = "append"
     \/ /\ trace' = Append(trace, "get_chat_response")
        /\ response' = response
        /\ rpc' = "waiting"
  /\ UNCHANGED <<environ, password_matches, messages, widget, context,
                 messages_at_start, runs, extract_vars, classify_vars,
                 setup_vars, dbtest_vars, memory_vars>>

\* line 546
AppendResponse ==
  /\ rpc = "append"
  /\ messages' = Append(messages, [role |-> "assistant", content |-> response])
  /\ rpc' = "sidebar"
  /\ UNCHANGED <<environ, password_matches, widget, context, response, trace,
                 messages_at_start, runs, extract_vars, classify_vars,
                 setup_vars, dbtest_vars, memory_vars>>

\* lines 613-615: "Clear Chat History" empties the history and st.rerun()
\* starts the script again; otherwise the run ends
Sidebar ==
  /\ rpc = "sidebar"
  /\ IF widget = "clear"
       THEN /\ messages' = <<>>
            /\ widget' = "none"
            /\ trace' = <<>>
            /\ messages_at_start' = <<>>
            /\ rpc' = "password"
       ELSE /\ UNCHANGED <<messages, widget, trace, messages_at_start>>
            /\ rpc' = "waiting"
  /\ UNCHANGED <<environ, password_matches, context, response, runs,
                 extract_vars, classify_vars, setup_vars, dbtest_vars,
                 memory_vars>>

ChatNext ==
  \/ StartRun
  \/ PasswordGate
  \/ ConfigGate
  \/ InitSession
  \/ ChatInput
  \/ GetContext
  \/ Classify
  \/ ExtractContext
  \/ NextPattern
  \/ ProcessMatch
  \/ PatternsDone
  \/ FallbackKeyword
  \/ FallbackDone
  \/ Finalize
  \/ ChartOrWarning
  \/ GetChatResponse
  \/ AppendResponse
  \/ Sidebar

ChatSpec == ChatInit /\ [][ChatNext]_vars

\* ------------------------------------------------------------------------
\* Properties of the chat page
\* ------------------------------------------------------------------------
\* the run has made the call
InTrace(call) == \E i \in 1..Len(trace) : trace[i] = call

\* the question of this run was classified as a visualization request
VisualizationTurn ==
  InTrace("detect_visualization_request") /\ is_visualization_request

\* C22: in a chat turn whose question is classified as a visualization
\* request, get_chat_response is never called and no definition formatting
\* is applied; a chart is rendered exactly when the extraction from the
\* context gives at least one value, otherwise the message 'No numerical
\* data found' is shown; either way exactly one assistant message is
\* appended to the history.
C22_ChartOnlyTurn ==
  VisualizationTurn =>
    /\ ~InTrace("get_chat_response")
    /\ ~InTrace("format_definition_response")
    /\ rpc \in {"append", "sidebar", "waiting"} =>
         /\ InTrace("plotly_chart") <=> data.values # <<>>
         /\ InTrace("warning") <=> data.values = <<>>
         /\ data.values = <<>> => response = "No numerical data found"
    /\ rpc \in {"sidebar", "waiting"} =>
         /\ Len(messages) = Len(messages_at_start) + 2
         /\ SubSeq(messages, 1, Len(messages_at_start)) = messages_at_start
         /\ messages[Len(messages) - 1] = [role |-> "user", content |-> prompt]
         /\ messages[Len(messages)] = [role |-> "assistant", content |-> response]

\* a chart request whose context held no number has ended with the message
C22_Witness ==
  /\ VisualizationTurn
  /\ rpc = "waiting"
  /\ context = NoNumber
  /\ InTrace("warning")
  /\ messages[Len(messages)].content = "No numerical data found"

\* C23: between the runs, whatever turns and clearings were made and
\* whichever of them ended with an exception of get_context or of the
\* completion, the history alternates user, assistant, user, ... from a
\* user message on.
C23_HistoryAlternates ==
  rpc = "waiting" =>
    \A i \in 1..Len(messages) :
       messages[i].role = IF i % 2 = 1 THEN "user" ELSE "assistant"

\* the run is one the gate must stop
GateClosed ==
  \/ (environ.ENVIRONMENT = "production" /\ ~password_matches)
  \/ ~environ.AZURE_OPENAI_API_KEY
  \/ ~environ.AZURE_OPENAI_ENDPOINT

\* C24: a run in production with a wrong password, or with
\* AZURE_OPENAI_API_KEY or AZURE_OPENAI_ENDPOINT unset, stops before the
\* table is opened and before any retrieval or completion call, and leaves
\* the history as it was.
C24_GateStopsRun ==
  (runs > 0 /\ GateClosed) =>
    /\ trace = <<>>
    /\ messages = messages_at_start
    /\ rpc \in {"password", "config", "waiting"}

\* after a turn that was answered, a run with a wrong password has stopped
C24_Witness ==
  /\ environ.ENVIRONMENT = "production"
  /\ environ.AZURE_OPENAI_API_KEY
  /\ environ.AZURE_OPENAI_ENDPOINT
  /\ ~password_matches
  /\ rpc = "waiting"
  /\ runs = 2
  /\ Len(messages) = 2

====
